---- MODULE Spec2Model ----
(***************************************************************************)
(* A model of VideoExporter (src/src/lib/exporter/videoExporter.ts): one   *)
(* exporter object, its export() coroutine, cancel(), and the platform     *)
(* objects it drives (video element, renderer, WebCodecs encoder, muxer).  *)
(*                                                                         *)
(* JavaScript runs every handler to completion, so each action below is    *)
(* one whole turn of the event loop: the code from one await (or callback  *)
(* entry) to the next await (or return).  The program state is gathered in *)
(* a record so that the synchronous code can be written as functions from  *)
(* state to state, named after the methods they model.                     *)
(*                                                                         *)
(* The second part models applyZoomTransform (src/unnamed/part_000): the   *)
(* sprite, blur filter and mask it writes, and one action that calls it.   *)
(***************************************************************************)
EXTENDS Integers, Sequences, FiniteSets, TLC

\* ------------------------------------------------------------------ bounds
\* Number of export() calls made on the one exporter object.
MaxRuns == 2
\* Largest totalFrames of an export under Spec.
MaxFrames == 2
\* Unsettled muxer writes the muxer of SpecLong holds at once.
MaxMuxPending == 1
\* Frames the encoder of SpecKeyframe has queued when the next sample arrives.
MaxBacklog == 1
\* Largest zoomScale passed to applyZoomTransform, in halves.
MaxZoomHalves == 4

\* ------------------------------------------------------- program constants
MAX_ENCODE_QUEUE == 120
KEYFRAME_INTERVAL == 150
MICROS_PER_SECOND == 1000000
\* needsSeek tolerance, 0.001 s, in microseconds
SEEK_TOLERANCE_US == 1000

NULL == 0

\* config.frameRate values.  Each divides 1_000_000, so that the source's
\* floating-point 1_000_000 / frameRate is exact and integer.
FrameRates == {2, 1000}
FrameRatesLong == {25}
\* videoInfo.duration values, in milliseconds.
DurationsMs == {0, 2, 3, 700, 1500}
DurationsMsLong == {4840}
\* 152 frames at 25 fps: frame 150 is submitted and one frame follows it.
DurationsMsKeyframe == {6080}

\* EncodedVideoChunkMetadata shapes an encoder may pass to the output
\* callback: cfg = meta.decoderConfig present, desc = its description present,
\* cs = its colorSpace present.
NoMeta == [cfg |-> FALSE, desc |-> FALSE, cs |-> FALSE]
FullMeta == [cfg |-> TRUE, desc |-> TRUE, cs |-> TRUE]
MetaShapes ==
    {NoMeta, FullMeta,
     [cfg |-> TRUE, desc |-> TRUE, cs |-> FALSE],
     [cfg |-> TRUE, desc |-> FALSE, cs |-> TRUE]}

CANCEL_MESSAGE == "Export cancelled"
\* The error a rejected mux promise would carry out of Promise.all.
MUX_WRITE_MESSAGE == "Muxing error"
ENCODER_INIT_MESSAGE == "Failed to initialize video encoder"

VARIABLES
    \* fields of VideoExporter
    decoder, renderer, encoder, muxer, cancelled, encodeQueue,
    videoDescription, videoColorSpace, muxingPromises, chunkCount,
    \* config.frameRate
    frameRate,
    \* export(): position, locals, returned value
    pc, videoInfo, totalFrames, frameIndex, awaited, result,
    \* initializeEncoder(): the closure's local videoDescription
    localDescription,
    \* platform: encoder state and queue, video element position, muxer writes
    encState, inFlight, currentTime, muxPending,
    \* history of the current export() call
    run, lifecycle, configLog, submitLog, emitLog, muxLog, finalizeLog, flushed,
    cancelAt, errorLog, muxErrorLog,
    \* mux promises that settled as rejected
    rejected,
    \* applyZoomTransform: the layout it is called with, its last per-call
    \* input, and the display objects it writes
    geometry, zoomInput, videoSprite, blurFilter, maskGraphics

zoomVars == <<geometry, zoomInput, videoSprite, blurFilter, maskGraphics>>

exporterVars ==
    <<decoder, renderer, encoder, muxer, cancelled, encodeQueue,
      videoDescription, videoColorSpace, muxingPromises, chunkCount,
      frameRate, pc, videoInfo, totalFrames, frameIndex, awaited, result,
      localDescription, encState, inFlight, currentTime, muxPending,
      run, lifecycle, configLog, submitLog, emitLog, muxLog, finalizeLog, flushed,
      cancelAt, errorLog, muxErrorLog, rejected>>

vars == <<exporterVars, zoomVars>>

\* The current state as one record.
S ==
    [decoder |-> decoder, renderer |-> renderer, encoder |-> encoder,
     muxer |-> muxer, cancelled |-> cancelled, encodeQueue |-> encodeQueue,
     videoDescription |-> videoDescription,
     videoColorSpace |-> videoColorSpace,
     muxingPromises |-> muxingPromises, chunkCount |-> chunkCount,
     frameRate |-> frameRate, pc |-> pc, videoInfo |-> videoInfo,
     totalFrames |-> totalFrames,
     frameIndex |-> frameIndex, awaited |-> awaited, result |-> result,
     localDescription |-> localDescription, encState |-> encState,
     inFlight |-> inFlight, currentTime |-> currentTime,
     muxPending |-> muxPending, run |-> run, lifecycle |-> lifecycle,
     configLog |-> configLog, submitLog |-> submitLog, emitLog |-> emitLog,
     muxLog |-> muxLog, finalizeLog |-> finalizeLog, flushed |-> flushed,
     cancelAt |-> cancelAt, errorLog |-> errorLog,
     muxErrorLog |-> muxErrorLog, rejected |-> rejected]

\* The next state is the record s.
Set(s) ==
    /\ decoder' = s.decoder
    /\ renderer' = s.renderer
    /\ encoder' = s.encoder
    /\ muxer' = s.muxer
    /\ cancelled' = s.cancelled
    /\ encodeQueue' = s.encodeQueue
    /\ videoDescription' = s.videoDescription
    /\ videoColorSpace' = s.videoColorSpace
    /\ muxingPromises' = s.muxingPromises
    /\ chunkCount' = s.chunkCount
    /\ frameRate' = s.frameRate
    /\ pc' = s.pc
    /\ videoInfo' = s.videoInfo
    /\ totalFrames' = s.totalFrames
    /\ frameIndex' = s.frameIndex
    /\ awaited' = s.awaited
    /\ result' = s.result
    /\ localDescription' = s.localDescription
    /\ encState' = s.encState
    /\ inFlight' = s.inFlight
    /\ currentTime' = s.currentTime
    /\ muxPending' = s.muxPending
    /\ run' = s.run
    /\ lifecycle' = s.lifecycle
    /\ configLog' = s.configLog
    /\ submitLog' = s.submitLog
    /\ emitLog' = s.emitLog
    /\ muxLog' = s.muxLog
    /\ finalizeLog' = s.finalizeLog
    /\ flushed' = s.flushed
    /\ cancelAt' = s.cancelAt
    /\ errorLog' = s.errorLog
    /\ muxErrorLog' = s.muxErrorLog
    /\ rejected' = s.rejected
    /\ UNCHANGED zoomVars

\* cancelAt: where export() stood when cancel() first landed in this call.
NoCancel == [pc |-> "none", frameIndex |-> 0]

NoResult == [kind |-> "none"]
Success == [kind |-> "result", success |-> TRUE, blob |-> TRUE, error |-> ""]
Failure(msg) == [kind |-> "result", success |-> FALSE, blob |-> FALSE, error |-> msg]

Abs(x) == IF x < 0 THEN -x ELSE x

\* Math.ceil(videoInfo.duration * frameRate), the duration given in ms.
TotalFrames(durationMs, fr) == (durationMs * fr + 999) \div 1000

\* 1_000_000 / frameRate, in microseconds.
FrameDuration(fr) == MICROS_PER_SECOND \div fr

Event(ev, obj) == [ev |-> ev, obj |-> obj]

\* ------------------------------------------------------------ the encoder
\* VideoEncoder.close(), and the platform's own close on an error: the state
\* becomes "closed", queued work is dropped and no output callback follows.
EncoderClose(s) ==
    [s EXCEPT !.encState = "closed",
              !.inFlight = <<>>,
              !.lifecycle = Append(@, Event("release", "encoder"))]

\* ----------------------------------------------------------- cleanup()
cleanup(s) ==
    LET s1 == IF s.encoder # NULL
              THEN [(IF s.encState = "configured" THEN EncoderClose(s) ELSE s)
                        EXCEPT !.encoder = NULL]
              ELSE s
        s2 == IF s1.decoder # NULL
              THEN [s1 EXCEPT !.lifecycle = Append(@, Event("release", "decoder")),
                              !.decoder = NULL]
              ELSE s1
        s3 == IF s2.renderer # NULL
              THEN [s2 EXCEPT !.lifecycle = Append(@, Event("release", "renderer")),
                              !.renderer = NULL]
              ELSE s2
    IN  [s3 EXCEPT !.muxer = NULL,
                   !.encodeQueue = 0,
                   !.muxingPromises = <<>>,
                   !.chunkCount = 0,
                   !.videoDescription = FALSE,
                   !.videoColorSpace = "undefined"]

\* ------------------------------------------------------------- cancel()
cancel(s) == cleanup([s EXCEPT !.cancelled = TRUE])

\* ------------------------------------------- export(): leaving the try block
\* Mutant of Finally: the finally block forgets cleanup().
FinallyNoCleanup(s) == [s EXCEPT !.pc = "returned"]

\* finally { this.cleanup() }, then control returns to the caller.
Finally(s) == [cleanup(s) EXCEPT !.pc = "returned"]

Return(s, res) == Finally([s EXCEPT !.result = res])

\* catch (error): the result carries the error's message.
Catch(s, msg) == Return(s, Failure(msg))

\* ---------------------------------------------------- initializeEncoder()
\* hwOk, swOk: whether configure() accepts the hardware-preferring and the
\* software-preferring configuration.  The method throws exactly when it
\* leaves the encoder unconfigured.
Configure(mode, ok) == [hardwareAcceleration |-> mode, ok |-> ok]

\* Mutant of initializeEncoder: no software fallback, the hardware failure
\* is rethrown.
initializeEncoderNoFallback(s, hwOk, swOk) ==
    LET s1 == [s EXCEPT !.encodeQueue = 0,
                        !.muxingPromises = <<>>,
                        !.chunkCount = 0,
                        !.localDescription = FALSE,
                        !.encoder = s.run,
                        !.encState = IF hwOk THEN "configured" ELSE "unconfigured",
                        !.inFlight = <<>>,
                        !.lifecycle = Append(@, Event("new", "encoder"))]
    IN  [s1 EXCEPT !.configLog = Append(@, Configure("prefer-hardware", hwOk))]

initializeEncoder(s, hwOk, swOk) ==
    LET s1 == [s EXCEPT !.encodeQueue = 0,
                        !.muxingPromises = <<>>,
                        !.chunkCount = 0,
                        !.localDescription = FALSE,
                        !.encoder = s.run,
                        !.encState = "unconfigured",
                        !.inFlight = <<>>,
                        !.lifecycle = Append(@, Event("new", "encoder"))]
        s2 == [s1 EXCEPT !.configLog = Append(@, Configure("prefer-hardware", hwOk))]
    IN  IF hwOk
        THEN [s2 EXCEPT !.encState = "configured"]
        ELSE LET s3 == [s2 EXCEPT !.configLog =
                                      Append(@, Configure("prefer-software", swOk))]
             IN  IF swOk THEN [s3 EXCEPT !.encState = "configured"] ELSE s3

\* ------------------------------------------------ export(): the frame loop
\* Lines 154-158: await Promise.all(this.muxingPromises).
AwaitMuxing(s) ==
    [s EXCEPT !.awaited = {s.muxingPromises[k] : k \in 1..Len(s.muxingPromises)},
              !.pc = "muxAll"]

\* Lines 145-152: after the loop.
AfterLoop(s) ==
    IF s.cancelled
    THEN Return(s, Failure(CANCEL_MESSAGE))
    ELSE IF s.encoder # NULL /\ s.encState = "configured"
         THEN [s EXCEPT !.pc = "flush"]
         ELSE AwaitMuxing(s)

\* Lines 96-102: the sample is ready; new VideoFrame(videoElement) and the
\* call of this.renderer!.renderFrame.  frameOk: whether the video element
\* still yields a frame (it may not once its decoder was destroyed).
AfterSample(s, frameOk) ==
    IF ~frameOk THEN Catch(s, "InvalidStateError")
    ELSE IF s.renderer = NULL THEN Catch(s, "TypeError")
    ELSE [s EXCEPT !.pc = "render"]

\* Lines 80-94: the head of one iteration.
LoopBody(s) ==
    LET i == s.frameIndex
        videoTime == i * FrameDuration(s.frameRate)
        needsSeek == Abs(s.currentTime - videoTime) > SEEK_TOLERANCE_US
    IN  IF needsSeek \/ i = 0
        THEN [s EXCEPT !.currentTime = IF needsSeek THEN videoTime ELSE @,
                       !.pc = "sample"]
        ELSE AfterSample(s, s.decoder # NULL)

\* Mutant of LoopTop: the loop runs one iteration too many.
LoopTopInclusive(s) ==
    IF s.frameIndex <= s.totalFrames /\ ~s.cancelled
    THEN LoopBody(s)
    ELSE AfterLoop(s)

\* Line 79: the loop condition.
LoopTop(s) ==
    IF s.frameIndex < s.totalFrames /\ ~s.cancelled
    THEN LoopBody(s)
    ELSE AfterLoop(s)

\* Mutant of Submit: the keyframe hint is computed from the incremented index.
SubmitKeyframeOffByOne(s) ==
    LET i == s.frameIndex
        s1 == IF s.encoder # NULL /\ s.encState = "configured"
              THEN [s EXCEPT
                      !.encodeQueue = @ + 1,
                      !.inFlight = Append(@, i),
                      !.submitLog = Append(@,
                          [index |-> i,
                           timestamp |-> i * FrameDuration(s.frameRate),
                           keyFrame |-> ((i + 1) % KEYFRAME_INTERVAL = 0)])]
              ELSE s
    IN  LoopTop([s1 EXCEPT !.frameIndex = @ + 1])

\* Lines 126-143: the guarded submit, frameIndex++ and the progress report.
Submit(s) ==
    LET i == s.frameIndex
        s1 == IF s.encoder # NULL /\ s.encState = "configured"
              THEN [s EXCEPT
                      !.encodeQueue = @ + 1,
                      !.inFlight = Append(@, i),
                      !.submitLog = Append(@,
                          [index |-> i,
                           timestamp |-> i * FrameDuration(s.frameRate),
                           keyFrame |-> (i % KEYFRAME_INTERVAL = 0)])]
              ELSE s
    IN  LoopTop([s1 EXCEPT !.frameIndex = @ + 1])

\* Mutant of Backpressure: the wait is skipped.
BackpressureNoWait(s) == Submit(s)

\* Lines 121-124: the backpressure wait.
Backpressure(s) ==
    IF s.encodeQueue >= MAX_ENCODE_QUEUE /\ ~s.cancelled
    THEN [s EXCEPT !.pc = "backpressure"]
    ELSE Submit(s)

\* Lines 104-119: after renderFrame resolved.
AfterRender(s) ==
    IF s.renderer = NULL THEN Catch(s, "TypeError") ELSE Backpressure(s)

\* Lines 61-77: after renderer.initialize() resolved, up to muxer.initialize().
AfterRendererInit(s, hwOk, swOk) ==
    LET s1 == [s EXCEPT !.totalFrames = TotalFrames(s.videoInfo, s.frameRate)]
        s2 == initializeEncoder(s1, hwOk, swOk)
    IN  IF s2.encState # "configured"
        THEN Catch(s2, ENCODER_INIT_MESSAGE)
        ELSE [s2 EXCEPT !.muxer = s.run, !.pc = "muxerInit"]

\* Lines 68-77: after muxer.initialize() resolved; elementOk: whether
\* getVideoElement() returns an element.
AfterMuxerInit(s, elementOk) ==
    IF s.decoder = NULL THEN Catch(s, "TypeError")
    ELSE IF ~elementOk THEN Catch(s, "Video element not available")
    ELSE LoopTop([s EXCEPT !.frameIndex = 0])

\* Lines 46-58: after loadVideo resolved with a duration.
AfterLoadVideo(s, durationMs) ==
    [s EXCEPT !.videoInfo = durationMs,
              !.renderer = s.run,
              !.lifecycle = Append(@, Event("new", "renderer")),
              !.pc = "rendererInit"]

\* Lines 38-44: entry of export().
ExportEntry(s) ==
    LET s1 == cleanup(s)
    IN  [s1 EXCEPT !.cancelled = FALSE,
                   !.run = @ + 1,
                   !.decoder = s.run + 1,
                   !.lifecycle = <<Event("new", "decoder")>>,
                   !.encState = "absent",
                   !.inFlight = <<>>,
                   !.currentTime = 0,
                   !.muxPending = {},
                   !.videoInfo = 0,
                   !.totalFrames = 0,
                   !.frameIndex = 0,
                   !.awaited = {},
                   !.result = NoResult,
                   !.localDescription = FALSE,
                   !.configLog = <<>>,
                   !.submitLog = <<>>,
                   !.emitLog = <<>>,
                   !.muxLog = <<>>,
                   !.finalizeLog = <<>>,
                   !.flushed = FALSE,
                   !.cancelAt = NoCancel,
                   !.errorLog = 0,
                   !.muxErrorLog = <<>>,
                   !.rejected = {},
                   !.pc = "loadVideo"]

\* Lines 157-158: all awaited mux promises settled; this.muxer!.finalize().
AfterMuxing(s) ==
    IF s.muxer = NULL THEN Catch(s, "TypeError")
    ELSE [s EXCEPT
            !.finalizeLog = Append(@,
                [pending |-> {p \in s.muxPending : p[1] = s.run} # {},
                 flushed |-> s.flushed]),
            !.pc = "finalize"]

\* Line 155: Promise.all rejects with the first rejected promise.
AfterPromiseAll(s) ==
    IF s.awaited \cap s.rejected # {}
    THEN Catch(s, MUX_WRITE_MESSAGE)
    ELSE AfterMuxing(s)

\* ------------------------------------------- the encoder's output callback
\* Mutant of muxingTask: the first chunk's write is started after the next
\* chunk's (the task yields before it calls addVideoChunk).
muxingTaskDeferred(s, frame, meta, isFirstChunk, promise) ==
    LET written == [frame |-> frame, metadata |-> "encoder",
                    decoderConfig |-> meta.cfg,
                    description |-> meta.cfg /\ meta.desc,
                    colorSpace |-> IF meta.cfg /\ meta.cs THEN "encoder" ELSE "none"]
    IN  [s EXCEPT !.muxLog = IF Len(@) = 1 THEN <<written>> \o @ ELSE Append(@, written),
                  !.muxPending = @ \cup {promise}]

\* Line 221: the logged failure of the write of `promise`; written is the
\* number of chunks handed to the muxer so far.
MuxError(s, promise) == [promise |-> promise, written |-> Len(s.muxLog)]

\* Lines 195-223: the async function of the callback.  It runs synchronously
\* up to its call of this.muxer!.addVideoChunk, so the chunk is handed to the
\* muxer within the callback; its promise stays pending until that write
\* settles (a null muxer throws inside the try, and the promise fulfils).
muxingTask(s, frame, meta, isFirstChunk, promise) ==
    LET written ==
            IF isFirstChunk /\ s.videoDescription
            THEN [frame |-> frame,
                  metadata |-> "synthesized",
                  decoderConfig |-> TRUE,
                  description |-> TRUE,
                  colorSpace |-> IF s.videoColorSpace = "undefined"
                                 THEN "default" ELSE s.videoColorSpace]
            ELSE [frame |-> frame,
                  metadata |-> "encoder",
                  decoderConfig |-> meta.cfg,
                  description |-> meta.cfg /\ meta.desc,
                  colorSpace |-> IF meta.cfg /\ meta.cs THEN "encoder" ELSE "none"]
    IN  IF s.muxer = NULL
        THEN [s EXCEPT !.muxErrorLog = Append(@, MuxError(s, promise))]
        ELSE [s EXCEPT !.muxLog = Append(@, written),
                       !.muxPending = @ \cup {promise}]

\* Mutant of muxingTaskSettled: the task has no try/catch, a failed write
\* rejects its promise.
muxingTaskSettledNoCatch(s, promise, ok) ==
    IF ok
    THEN [s EXCEPT !.muxPending = @ \ {promise}]
    ELSE [s EXCEPT !.muxPending = @ \ {promise},
                   !.rejected = @ \cup {promise}]

\* Lines 216-223: the task resumes when its addVideoChunk settled; a
\* rejection is caught and logged, and the task's promise fulfils.
muxingTaskSettled(s, promise, ok) ==
    IF ok
    THEN [s EXCEPT !.muxPending = @ \ {promise}]
    ELSE [s EXCEPT !.muxPending = @ \ {promise},
                   !.muxErrorLog = Append(@, MuxError(s, promise))]

\* Lines 179-227, for the chunk of frame `frame` arriving with metadata `meta`.
output(s, frame, meta) ==
    LET s1 == IF meta.cfg /\ meta.desc /\ ~s.localDescription
              THEN [s EXCEPT !.localDescription = TRUE, !.videoDescription = TRUE]
              ELSE s
        s2 == IF meta.cfg /\ meta.cs /\ s1.videoColorSpace = "undefined"
              THEN [s1 EXCEPT !.videoColorSpace = "encoder"]
              ELSE s1
        isFirstChunk == s2.chunkCount = 0
        s3 == [s2 EXCEPT !.chunkCount = @ + 1]
        promise == <<s.run, Len(s.emitLog) + 1>>
        s4 == muxingTask(s3, frame, meta, isFirstChunk, promise)
    IN  [s4 EXCEPT !.emitLog = Append(@, frame),
                   !.muxingPromises = Append(@, promise),
                   !.encodeQueue = @ - 1]

RemoveAt(q, k) == SubSeq(q, 1, k - 1) \o SubSeq(q, k + 1, Len(q))

\* The platform's error path: the encoder closes itself and then calls the
\* error callback of lines 228-230, which only logs.
error(s) == [EncoderClose(s) EXCEPT !.errorLog = @ + 1]


\* ------------------------------------------------- applyZoomTransform
\* Numbers are kept exact as integers: scales in halves (sprite scale, a
\* product of two, in quarters), focus in quarters, positions in eighths of
\* a pixel, motionIntensity and blur in 1/10000, the mask radius in 1/50 px.
SCALE_DENOM == 2
FOCUS_DENOM == 4
POSITION_DENOM == 8
\* shouldBlur threshold 0.0005, in 1/10000
BLUR_THRESHOLD == 5
\* Math.min(6, motionIntensity * 120)
MAX_BLUR == 6
BLUR_GAIN == 120
MOTION_DENOM == 10000

Min2(a, b) == IF a <= b THEN a ELSE b
Max2(a, b) == IF a >= b THEN a ELSE b

\* A layout with every dimension positive.
BaseGeometry ==
    [stageSize |-> [width |-> 8, height |-> 6],
     videoSize |-> [width |-> 8, height |-> 6],
     baseScale |-> 2,
     baseOffset |-> [x |-> 0, y |-> 0],
     baseMask |-> [x |-> 0, y |-> 1, width |-> 8, height |-> 6],
     cropOffset |-> [x |-> 0, y |-> 0]]

ValidGeometries ==
    {[stageSize |-> [width |-> sw, height |-> 6],
      videoSize |-> [width |-> vw, height |-> 12],
      baseScale |-> bs,
      baseOffset |-> [x |-> ox, y |-> 0],
      baseMask |-> [x |-> mx, y |-> 1, width |-> 8, height |-> 6],
      cropOffset |-> [x |-> cx, y |-> 0]] :
        sw \in {8, 12}, vw \in {8, 16}, bs \in {1, 2}, ox \in {0, 1},
        mx \in {0, 2}, cx \in {0, 2}}

\* BaseGeometry with one dimension made zero or negative.
DegenerateGeometries ==
    {[BaseGeometry EXCEPT ![d[1]][d[2]] = v] :
        d \in {<<"stageSize", "width">>, <<"stageSize", "height">>,
               <<"videoSize", "width">>, <<"videoSize", "height">>,
               <<"baseMask", "width">>, <<"baseMask", "height">>},
        v \in {0, -4}}
    \cup {[BaseGeometry EXCEPT !.baseScale = v] : v \in {0, -2}}

Geometries == ValidGeometries \cup DegenerateGeometries

\* Per-call inputs; blurFilter tells whether params.blurFilter is non-null.
BlurInputs ==
    {[motionIntensity |-> 5, isPlaying |-> TRUE, blurFilter |-> TRUE],
     [motionIntensity |-> 6, isPlaying |-> TRUE, blurFilter |-> TRUE],
     [motionIntensity |-> 1000, isPlaying |-> TRUE, blurFilter |-> TRUE],
     [motionIntensity |-> 1000, isPlaying |-> FALSE, blurFilter |-> TRUE],
     [motionIntensity |-> 1000, isPlaying |-> TRUE, blurFilter |-> FALSE]}

ZoomInputs ==
    {[zoomScale |-> zs, focusX |-> fx, focusY |-> 1,
      motionIntensity |-> b.motionIntensity, isPlaying |-> b.isPlaying,
      blurFilter |-> b.blurFilter] :
        zs \in {-2, 0} \cup 1..MaxZoomHalves, fx \in {0, 2, 4}, b \in BlurInputs}

NoZoomInput == [zoomScale |-> "none"]

NoMaskDrawn == <<>>

\* A new sprite (scale 1, position 0), a filter without blur, an empty mask.
InitialDisplay ==
    [videoSprite |-> [scale |-> SCALE_DENOM * SCALE_DENOM, x |-> 0, y |-> 0],
     blurFilter |-> 0,
     maskGraphics |-> NoMaskDrawn]

Display ==
    [videoSprite |-> videoSprite, blurFilter |-> blurFilter,
     maskGraphics |-> maskGraphics]

\* Lines 38-48: the early return.
GeometryRejected(g) ==
    \/ g.stageSize.width = 0
    \/ g.stageSize.height = 0
    \/ g.videoSize.width = 0
    \/ g.videoSize.height = 0
    \/ g.baseScale <= 0
    \/ g.baseMask.width <= 0
    \/ g.baseMask.height <= 0

\* Mutant of NewVideo: the focus offset is taken from the stage origin, not
\* from the base position of the video.
NewVideoNoBaseOffset(maskOrigin, maskLength, stageLength, baseVideo, cropStart, videoLength, focus, zoomScale, actualScale) ==
    LET focusStagePx == FOCUS_DENOM * maskOrigin + focus * stageLength
        stageCenter == 2 * maskOrigin + stageLength
        focusInVideoSpace == focusStagePx
        newVideo == 4 * stageCenter - focusInVideoSpace * zoomScale
        cropEnd == cropStart + videoLength
        minVideo == POSITION_DENOM * (maskOrigin + maskLength)
                        - 2 * cropEnd * actualScale
        maxVideo == POSITION_DENOM * maskOrigin - 2 * cropStart * actualScale
    IN  IF minVideo <= maxVideo
        THEN Max2(minVideo, Min2(maxVideo, newVideo))
        ELSE newVideo

\* Mutant of NewVideo: the clamp is applied whatever the order of the bounds.
NewVideoClampAlways(maskOrigin, maskLength, stageLength, baseVideo, cropStart, videoLength, focus, zoomScale, actualScale) ==
    LET focusStagePx == FOCUS_DENOM * maskOrigin + focus * stageLength
        stageCenter == 2 * maskOrigin + stageLength
        focusInVideoSpace == focusStagePx - FOCUS_DENOM * baseVideo
        newVideo == 4 * stageCenter - focusInVideoSpace * zoomScale
        cropEnd == cropStart + videoLength
        minVideo == POSITION_DENOM * (maskOrigin + maskLength)
                        - 2 * cropEnd * actualScale
        maxVideo == POSITION_DENOM * maskOrigin - 2 * cropStart * actualScale
    IN  Max2(minVideo, Min2(maxVideo, newVideo))

\* Lines 50-88 for one axis: the sprite position, in eighths of a pixel.
\* focus is in quarters, zoomScale in halves, actualScale in quarters.
NewVideo(maskOrigin, maskLength, stageLength, baseVideo, cropStart, videoLength, focus, zoomScale, actualScale) ==
    LET focusStagePx == FOCUS_DENOM * maskOrigin + focus * stageLength
        stageCenter == 2 * maskOrigin + stageLength
        focusInVideoSpace == focusStagePx - FOCUS_DENOM * baseVideo
        newVideo == 4 * stageCenter - focusInVideoSpace * zoomScale
        cropEnd == cropStart + videoLength
        minVideo == POSITION_DENOM * (maskOrigin + maskLength)
                        - 2 * cropEnd * actualScale
        maxVideo == POSITION_DENOM * maskOrigin - 2 * cropStart * actualScale
    IN  IF minVideo <= maxVideo
        THEN Max2(minVideo, Min2(maxVideo, newVideo))
        ELSE newVideo

\* Lines 92-96: the blur written when a filter is given.
MotionBlur(z) ==
    IF z.isPlaying /\ z.motionIntensity > BLUR_THRESHOLD
    THEN Min2(MAX_BLUR * MOTION_DENOM, z.motionIntensity * BLUR_GAIN)
    ELSE 0

\* Lines 20-105: the display objects after applyZoomTransform(params), from
\* the display objects d before it, the layout g and the per-call input z.
applyZoomTransform(d, g, z) ==
    IF GeometryRejected(g) THEN d
    ELSE
    LET actualScale == g.baseScale * z.zoomScale
        newVideoX == NewVideo(g.baseMask.x, g.baseMask.width, g.stageSize.width,
                              g.baseOffset.x, g.cropOffset.x, g.videoSize.width,
                              z.focusX, z.zoomScale, actualScale)
        newVideoY == NewVideo(g.baseMask.y, g.baseMask.height, g.stageSize.height,
                              g.baseOffset.y, g.cropOffset.y, g.videoSize.height,
                              z.focusY, z.zoomScale, actualScale)
        radius == Min2(g.baseMask.width, g.baseMask.height)
    IN  [videoSprite |-> [scale |-> actualScale, x |-> newVideoX, y |-> newVideoY],
         blurFilter |-> IF z.blurFilter THEN MotionBlur(z) ELSE d.blurFilter,
         maskGraphics |-> <<[x |-> g.baseMask.x, y |-> g.baseMask.y,
                             width |-> g.baseMask.width,
                             height |-> g.baseMask.height,
                             radius |-> radius]>>]

\* ------------------------------------------------------------------ Init
InitExporter(rates) ==
    /\ decoder = NULL /\ renderer = NULL /\ encoder = NULL /\ muxer = NULL
    /\ cancelled = FALSE
    /\ encodeQueue = 0
    /\ videoDescription = FALSE
    /\ videoColorSpace = "undefined"
    /\ muxingPromises = <<>>
    /\ chunkCount = 0
    /\ frameRate \in rates
    /\ pc = "idle"
    /\ videoInfo = 0 /\ totalFrames = 0 /\ frameIndex = 0
    /\ awaited = {}
    /\ result = NoResult
    /\ localDescription = FALSE
    /\ encState = "absent"
    /\ inFlight = <<>>
    /\ currentTime = 0
    /\ muxPending = {}
    /\ run = 0
    /\ lifecycle = <<>> /\ configLog = <<>> /\ submitLog = <<>>
    /\ emitLog = <<>> /\ muxLog = <<>> /\ finalizeLog = <<>>
    /\ flushed = FALSE
    /\ cancelAt = NoCancel
    /\ errorLog = 0
    /\ muxErrorLog = <<>>
    /\ rejected = {}

\* The display objects before the first applyZoomTransform call.
InitZoom(geometries) ==
    /\ geometry \in geometries
    /\ zoomInput = NoZoomInput
    /\ videoSprite = InitialDisplay.videoSprite
    /\ blurFilter = InitialDisplay.blurFilter
    /\ maskGraphics = InitialDisplay.maskGraphics

InitWith(rates) == InitExporter(rates) /\ InitZoom({BaseGeometry})

Init == InitWith(FrameRates)

InitLong == InitWith(FrameRatesLong)

\* --------------------------------------------------- actions: the caller
ExportStart ==
    /\ pc \in {"idle", "returned"}
    /\ run < MaxRuns
    /\ Set(ExportEntry(S))

Cancel ==
    \E at \in {IF pc \notin {"idle", "returned"} /\ cancelAt = NoCancel
               THEN [pc |-> pc, frameIndex |-> frameIndex]
               ELSE cancelAt} :
        Set([cancel(S) EXCEPT !.cancelAt = at])

\* ------------------------------------- actions: export() resumes an await
LoadVideoResolved(durations) ==
    /\ pc = "loadVideo"
    /\ \E d \in durations : Set(AfterLoadVideo(S, d))

LoadVideoRejected ==
    /\ pc = "loadVideo"
    /\ Set(Catch(S, "LoadError"))

RendererInitResolved ==
    /\ pc = "rendererInit"
    /\ \E hwOk \in BOOLEAN, swOk \in BOOLEAN : Set(AfterRendererInit(S, hwOk, swOk))

RendererInitRejected ==
    /\ pc = "rendererInit"
    /\ Set(Catch(S, "RendererInitError"))

MuxerInitResolved ==
    /\ pc = "muxerInit"
    /\ \E elementOk \in BOOLEAN : Set(AfterMuxerInit(S, elementOk))

MuxerInitRejected ==
    /\ pc = "muxerInit"
    /\ Set(Catch(S, "MuxerInitError"))

\* requestVideoFrameCallback fired.
SampleReady ==
    /\ pc = "sample"
    /\ \E frameOk \in (IF decoder # NULL THEN {TRUE} ELSE BOOLEAN) :
          Set(AfterSample(S, frameOk))

\* The sample arrives once the encoder has at most maxBacklog frames queued
\* (a video source slower than the encoder).
SampleReadySlow(maxBacklog) ==
    /\ Len(inFlight) <= maxBacklog
    /\ SampleReady

RenderResolved ==
    /\ pc = "render"
    /\ Set(AfterRender(S))

RenderRejected ==
    /\ pc = "render"
    /\ Set(Catch(S, "RenderError"))

\* setTimeout(resolve, 0) of the backpressure wait fired.
BackpressureTick ==
    /\ pc = "backpressure"
    /\ Set(Backpressure(S))

\* flush() resolves once every queued frame has been emitted.
FlushResolved ==
    /\ pc = "flush"
    /\ encState = "configured"
    /\ inFlight = <<>>
    /\ Set(AwaitMuxing([S EXCEPT !.flushed = TRUE]))

\* flush() rejects when the encoder is closed under it.
FlushRejected ==
    /\ pc = "flush"
    /\ encState # "configured"
    /\ Set(Catch(S, "AbortError"))

MuxingSettled ==
    /\ pc = "muxAll"
    /\ awaited \cap muxPending = {} \/ awaited \cap rejected # {}
    /\ Set(AfterPromiseAll(S))

FinalizeResolved ==
    /\ pc = "finalize"
    /\ Set(Return(S, Success))

FinalizeRejected ==
    /\ pc = "finalize"
    /\ Set(Catch(S, "FinalizeError"))

\* ------------------------------------------------ actions: the platform
\* The encoder emits the chunk of one of the first `window` queued frames
\* (window = 1: in submission order) with metadata of one of `metas`.
EncoderOutput(window, metas, maxPending) ==
    /\ encState = "configured"
    /\ Cardinality(muxPending) < maxPending
    /\ \E k \in 1..Len(inFlight), meta \in metas :
          /\ k <= window
          /\ Set(output([S EXCEPT !.inFlight = RemoveAt(@, k)], inFlight[k], meta))

EncoderError(minQueue) ==
    /\ encState = "configured"
    /\ encodeQueue >= minQueue
    /\ Set(error(S))

\* A muxer write settles, fulfilled (ok) or rejected.
MuxWriteSettled(ps, oks) ==
    \E p \in ps, ok \in oks : Set(muxingTaskSettled(S, p, ok))

\* The oldest unsettled write.
Oldest(ps) == {p \in ps : \A q \in ps : q[1] > p[1] \/ (q[1] = p[1] /\ q[2] >= p[2])}

\* ---------------------------------------------------------- specifications
\* Spec: short videos, every interleaving and every platform behaviour.
Next ==
    \/ ExportStart
    \/ Cancel
    \/ LoadVideoResolved({d \in DurationsMs : TotalFrames(d, frameRate) <= MaxFrames})
    \/ LoadVideoRejected
    \/ RendererInitResolved
    \/ RendererInitRejected
    \/ MuxerInitResolved
    \/ MuxerInitRejected
    \/ SampleReady
    \/ RenderResolved
    \/ RenderRejected
    \/ FlushResolved
    \/ FlushRejected
    \/ MuxingSettled
    \/ FinalizeResolved
    \/ FinalizeRejected
    \/ EncoderOutput(MaxFrames, MetaShapes, MaxFrames + 1)
    \/ EncoderError(0)
    \/ MuxWriteSettled(muxPending, {TRUE})

Spec == Init /\ [][Next]_vars

\* SpecLong: one video long enough to fill the encoder queue; the encoder
\* emits in order with the usual metadata (a decoder configuration on the
\* first chunk), the muxer writes in order, the encoder fails only when the
\* queue is full.
NextLong ==
    \/ ExportStart
    \/ Cancel
    \/ LoadVideoResolved(DurationsMsLong)
    \/ RendererInitResolved
    \/ MuxerInitResolved
    \/ SampleReady
    \/ RenderResolved
    \/ BackpressureTick
    \/ FlushResolved
    \/ FlushRejected
    \/ MuxingSettled
    \/ FinalizeResolved
    \/ EncoderOutput(1, IF chunkCount = 0 THEN {FullMeta} ELSE {NoMeta}, MaxMuxPending)
    \/ EncoderError(MAX_ENCODE_QUEUE)
    \/ MuxWriteSettled(Oldest(muxPending), {TRUE})

SpecLong == InitLong /\ [][NextLong]_vars

\* SpecMux: the short videos of Spec with a muxer whose writes may fail; the
\* other platform objects do not fail.
NextMux ==
    \/ ExportStart
    \/ Cancel
    \/ LoadVideoResolved({d \in DurationsMs : TotalFrames(d, frameRate) <= MaxFrames})
    \/ RendererInitResolved
    \/ MuxerInitResolved
    \/ SampleReady
    \/ RenderResolved
    \/ FlushResolved
    \/ FlushRejected
    \/ MuxingSettled
    \/ FinalizeResolved
    \/ FinalizeRejected
    \/ EncoderOutput(MaxFrames, {FullMeta, NoMeta}, MaxFrames)
    \/ MuxWriteSettled(muxPending, BOOLEAN)

SpecMux == Init /\ [][NextMux]_vars

\* An encoder that buffers: it emits only once its queue is full or a flush
\* was requested.
EncoderOutputLazy ==
    /\ encodeQueue >= MAX_ENCODE_QUEUE \/ pc = "flush"
    /\ EncoderOutput(1, IF chunkCount = 0 THEN {FullMeta} ELSE {NoMeta}, MaxMuxPending)

\* SpecLive: the 121-frame export of SpecLong with a buffering encoder, under
\* a fair platform: every pending wait of export() is eventually resumed,
\* every muxer write settles, the timer of the backpressure wait fires, and
\* the encoder eventually emits or fails.  cancel() and further export()
\* calls are up to the caller.
NextLive ==
    \/ ExportStart
    \/ Cancel
    \/ LoadVideoResolved(DurationsMsLong)
    \/ RendererInitResolved
    \/ MuxerInitResolved
    \/ SampleReady
    \/ RenderResolved
    \/ BackpressureTick
    \/ FlushResolved
    \/ FlushRejected
    \/ MuxingSettled
    \/ FinalizeResolved
    \/ EncoderOutputLazy
    \/ EncoderError(MAX_ENCODE_QUEUE)
    \/ MuxWriteSettled(Oldest(muxPending), {TRUE})

FairLive ==
    /\ WF_vars(LoadVideoResolved(DurationsMsLong))
    /\ WF_vars(RendererInitResolved)
    /\ WF_vars(MuxerInitResolved)
    /\ WF_vars(SampleReady)
    /\ WF_vars(RenderResolved)
    /\ WF_vars(BackpressureTick)
    /\ WF_vars(FlushResolved \/ FlushRejected)
    /\ WF_vars(MuxingSettled)
    /\ WF_vars(FinalizeResolved)
    /\ WF_vars(EncoderOutputLazy \/ EncoderError(MAX_ENCODE_QUEUE))
    /\ WF_vars(MuxWriteSettled(Oldest(muxPending), {TRUE}))

SpecLive == InitLong /\ [][NextLive]_vars /\ FairLive

\* SpecKeyframe: one video of 152 frames, long enough for a second keyframe;
\* the source is slower than the encoder, which emits in order.
NextKeyframe ==
    \/ ExportStart
    \/ Cancel
    \/ LoadVideoResolved(DurationsMsKeyframe)
    \/ RendererInitResolved
    \/ MuxerInitResolved
    \/ SampleReadySlow(MaxBacklog)
    \/ RenderResolved
    \/ FlushResolved
    \/ FlushRejected
    \/ MuxingSettled
    \/ FinalizeResolved
    \/ EncoderOutput(1, IF chunkCount = 0 THEN {FullMeta} ELSE {NoMeta}, MaxMuxPending)
    \/ MuxWriteSettled(Oldest(muxPending), {TRUE})

SpecKeyframe == InitLong /\ [][NextKeyframe]_vars

\* A caller applies the zoom transform with some per-call input.
ApplyZoom ==
    \E z \in ZoomInputs :
        LET d == applyZoomTransform(Display, geometry, z)
        IN  /\ zoomInput' = z
            /\ videoSprite' = d.videoSprite
            /\ blurFilter' = d.blurFilter
            /\ maskGraphics' = d.maskGraphics
            /\ UNCHANGED <<geometry, exporterVars>>

\* SpecZoom: applyZoomTransform called any number of times on one layout.
NextZoom == ApplyZoom

InitZoomSpec == InitExporter(FrameRatesLong) /\ InitZoom(Geometries)

SpecZoom == InitZoomSpec /\ [][NextZoom]_vars

\* ------------------------------------------------------------------ claims
Resources == {"decoder", "renderer", "encoder"}

Created(obj) == \E k \in 1..Len(lifecycle) : lifecycle[k] = Event("new", obj)

Releases(obj) == Cardinality({k \in 1..Len(lifecycle) : lifecycle[k] = Event("release", obj)})

\* obj was created before position k of the lifecycle and not released since.
LiveBefore(obj, k) ==
    \E i \in 1..(k - 1) :
        /\ lifecycle[i] = Event("new", obj)
        /\ \A j \in (i + 1)..(k - 1) : lifecycle[j] # Event("release", obj)

AllCleared == decoder = NULL /\ renderer = NULL /\ encoder = NULL /\ muxer = NULL

\* C1: the in-flight encode counter stays within 0..MAX_ENCODE_QUEUE in every
\* reachable state, and so does the encoder's queue: no frame is submitted
\* when the counter is at the bound.
C1_EncodeQueueBounded ==
    /\ 0 <= encodeQueue
    /\ encodeQueue <= MAX_ENCODE_QUEUE
    /\ Len(inFlight) <= MAX_ENCODE_QUEUE

\* The loop waits with the counter at the bound.
C1_Witness == pc = "backpressure" /\ encodeQueue = MAX_ENCODE_QUEUE

\* C2 (as claimed): when cancel() lands in the sample-ready wait, the render
\* or the backpressure wait of an iteration with 0 < N < totalFrames frames
\* processed, export() returns the cancellation result with all resources
\* released.
C2_CancelMidRunReportsCancelled ==
    (/\ pc = "returned"
     /\ cancelAt.pc \in {"sample", "render", "backpressure"}
     /\ 0 < cancelAt.frameIndex
     /\ cancelAt.frameIndex < totalFrames)
    => (/\ result = Failure(CANCEL_MESSAGE)
        /\ AllCleared
        /\ \A obj \in Resources : Created(obj) => Releases(obj) >= 1)

\* C3: a completed export() holds exactly one of: success with output bytes
\* and no error; failure with a message and no bytes (the cancellation
\* message among them); and every reference is cleared when it returns.
\* Before it returns there is no result.
C3_ExportOutcome ==
    /\ pc = "returned" =>
          /\ result.kind = "result"
          /\ \/ result.success /\ result.blob /\ result.error = ""
             \/ ~result.success /\ ~result.blob /\ result.error # ""
          /\ AllCleared
    /\ pc \notin {"returned", "idle"} => result = NoResult

\* export() returned a success.
C3_Witness == pc = "returned" /\ result = Success /\ Len(muxLog) > 0

\* C4 (as claimed): every resource created by an export is released exactly
\* once: never twice, and once export() has returned, never zero times.
C4_ReleasedExactlyOnce ==
    /\ \A obj \in Resources : Releases(obj) <= 1
    /\ pc = "returned" => \A obj \in Resources : Created(obj) => Releases(obj) = 1

\* C5 (as claimed): the decoder is never released while an encoder of this
\* export is created and unreleased, nor the renderer while the decoder is.
C5_ReleaseOrder ==
    \A k \in 1..Len(lifecycle) :
        /\ lifecycle[k] = Event("release", "decoder") => ~LiveBefore("encoder", k)
        /\ lifecycle[k] = Event("release", "renderer") => ~LiveBefore("decoder", k)

EmittedInOrder ==
    \A k \in 1..Len(emitLog) : k <= Len(submitLog) /\ emitLog[k] = submitLog[k].index

\* C7: when the encoder emits in submission order, the chunks are handed to
\* the muxer in the order their frames were submitted.
C7_MuxOrderIsSubmissionOrder ==
    EmittedInOrder =>
        /\ Len(muxLog) = Len(emitLog)
        /\ \A k \in 1..Len(muxLog) : muxLog[k].frame = submitLog[k].index

\* Two chunks were emitted in order and handed to the muxer.
C7_Witness == EmittedInOrder /\ Len(muxLog) >= 2

\* C8 (as claimed): the first chunk handed to the muxer carries the
\* synthesized decoder configuration, and no later chunk carries a decoder
\* configuration, whatever metadata the encoder passed.
C8_OnlyFirstChunkCarriesConfig ==
    \A k \in 1..Len(muxLog) :
        /\ k = 1 => /\ muxLog[k].metadata = "synthesized"
                    /\ muxLog[k].decoderConfig
                    /\ muxLog[k].description
                    /\ muxLog[k].colorSpace # "none"
        /\ k > 1 => ~muxLog[k].decoderConfig

\* C9: configure() is tried in hardware-preferring mode first and, only when
\* that fails, once more in software-preferring mode; when both fail export()
\* has returned the encoder-initialisation failure, nothing was submitted and
\* every reference is cleared.
C9_EncoderFallback ==
    /\ Len(configLog) <= 2
    /\ Len(configLog) >= 1 =>
          /\ configLog[1].hardwareAcceleration = "prefer-hardware"
          /\ (Len(configLog) = 2) = ~configLog[1].ok
    /\ Len(configLog) = 2 =>
          /\ configLog[2].hardwareAcceleration = "prefer-software"
          /\ ~configLog[2].ok =>
                /\ pc = "returned"
                /\ result = Failure(ENCODER_INIT_MESSAGE)
                /\ submitLog = <<>>
                /\ AllCleared
    /\ submitLog # <<>> => configLog[Len(configLog)].ok

\* Both configurations failed.
C9_Witness ==
    /\ Len(configLog) = 2
    /\ ~configLog[2].ok
    /\ result = Failure(ENCODER_INIT_MESSAGE)

\* C10: in an export without cancel() and without encoder error, the frames
\* submitted so far are the indices 0, 1, 2, ... in order, frame i with
\* timestamp i * (1_000_000 / frameRate); a successful export has submitted
\* exactly totalFrames = ceil(duration * frameRate) of them.
C10_FramesSubmittedInOrder ==
    (cancelAt = NoCancel /\ errorLog = 0) =>
        /\ \A k \in 1..Len(submitLog) :
              /\ submitLog[k].index = k - 1
              /\ submitLog[k].timestamp * frameRate = (k - 1) * MICROS_PER_SECOND
        /\ Len(submitLog) <= totalFrames
        /\ pc \in {"sample", "render", "backpressure"} => Len(submitLog) = frameIndex
        /\ (pc = "returned" /\ result = Success) =>
              /\ Len(submitLog) = totalFrames
              /\ totalFrames * 1000 >= videoInfo * frameRate
              /\ (totalFrames - 1) * 1000 < videoInfo * frameRate

\* A successful export of two frames.
C10_Witness ==
    /\ pc = "returned" /\ result = Success
    /\ cancelAt = NoCancel /\ errorLog = 0
    /\ totalFrames = 2 /\ Len(submitLog) = 2

\* C11: every frame submitted to the encoder carries a keyframe hint that is
\* true exactly when its index is a multiple of 150; frame 0 is a keyframe
\* and, below 151 frames, the only one.
C11_KeyframeEvery150 ==
    \A k \in 1..Len(submitLog) :
        /\ submitLog[k].keyFrame = (\E m \in 0..submitLog[k].index :
                                        submitLog[k].index = 150 * m)
        /\ submitLog[k].index = 0 => submitLog[k].keyFrame
        /\ (submitLog[k].keyFrame /\ Len(submitLog) < 151) => submitLog[k].index = 0

\* Frame 150 was submitted as a keyframe and frame 151, no keyframe, after it.
C11_Witness ==
    /\ Len(submitLog) = 152
    /\ submitLog[1].keyFrame
    /\ submitLog[151].index = 150 /\ submitLog[151].keyFrame
    /\ ~submitLog[152].keyFrame

\* The positions of export() inside a loop iteration: its sample-ready wait,
\* its renderFrame wait and its backpressure wait before the submit.
InIteration == {"sample", "render", "backpressure"}

\* C15: while a loop iteration is in flight, the decoder, renderer and
\* encoder it uses have not been released or cleared (by cancel()).
C15_CancelKeepsIterationResources ==
    pc \in InIteration =>
        /\ decoder # NULL /\ renderer # NULL /\ encoder # NULL
        /\ \A obj \in {"decoder", "renderer"} : Releases(obj) = 0

\* C16: while the encoder object is held, the in-flight counter is the
\* number of submitted frames that still await a callback: every frame whose
\* chunk was emitted or whose encoding failed has decremented it once.
C16_ErrorDecrementsQueue ==
    encoder # NULL => encodeQueue = Len(inFlight)

\* C20: a call that returned success=true submitted every frame
\* 0..totalFrames-1 and flushed the encoder before finalize().
C20_SuccessMeansAllSubmittedAndFlushed ==
    (pc = "returned" /\ result = Success) =>
        /\ Len(submitLog) = totalFrames
        /\ \A i \in 1..Len(submitLog) : submitLog[i].index = i - 1
        /\ Len(finalizeLog) = 1 /\ finalizeLog[1].flushed

\* C17: a failed muxer write is logged and its promise still fulfils, so the
\* await of all mux promises never rejects and no call of export() fails
\* with the muxer's error.
C17_MuxWriteFailureRecovered ==
    /\ rejected = {}
    /\ result # Failure(MUX_WRITE_MESSAGE)
    /\ \A k \in 1..Len(muxErrorLog) : muxErrorLog[k].promise \notin muxPending

\* The write of the first chunk failed and was logged, the second chunk was
\* handed to the muxer after that, finalize() ran and export() succeeded.
C17_Witness ==
    /\ pc = "returned" /\ result = Success
    /\ Len(muxErrorLog) >= 1
    /\ muxErrorLog[1] = [promise |-> <<run, 1>>, written |-> 1]
    /\ Len(muxLog) = 2
    /\ Len(finalizeLog) = 1

\* C19: under a fair platform every call of export() eventually returns.
C19_ExportEventuallyReturns ==
    (pc \notin {"idle", "returned"}) ~> (pc = "returned")

\* ---- applyZoomTransform claims.  The quantities of the claims, per axis,
\* from the layout and the last input alone (eighths of a pixel).
ZoomCalled == zoomInput # NoZoomInput

AllPositive(g) ==
    /\ g.stageSize.width > 0 /\ g.stageSize.height > 0
    /\ g.videoSize.width > 0 /\ g.videoSize.height > 0
    /\ g.baseScale > 0
    /\ g.baseMask.width > 0 /\ g.baseMask.height > 0

Axes == {"x", "y"}
SizeOf(axis) == IF axis = "x" THEN "width" ELSE "height"
ActualScale4 == geometry.baseScale * zoomInput.zoomScale
FocusOf(axis) == IF axis = "x" THEN zoomInput.focusX ELSE zoomInput.focusY
\* (focusPx - baseOffset) * zoomScale
FocusOffsetZoomed8(axis) ==
    (4 * geometry.baseMask[axis] + FocusOf(axis) * geometry.stageSize[SizeOf(axis)]
        - 4 * geometry.baseOffset[axis]) * zoomInput.zoomScale
StageCenter8(axis) ==
    8 * geometry.baseMask[axis] + 4 * geometry.stageSize[SizeOf(axis)]
MaskCenter8(axis) ==
    8 * geometry.baseMask[axis] + 4 * geometry.baseMask[SizeOf(axis)]
Candidate8(axis) == StageCenter8(axis) - FocusOffsetZoomed8(axis)
MinPosition8(axis) ==
    8 * (geometry.baseMask[axis] + geometry.baseMask[SizeOf(axis)])
        - 2 * (geometry.cropOffset[axis] + geometry.videoSize[SizeOf(axis)]) * ActualScale4
MaxPosition8(axis) ==
    8 * geometry.baseMask[axis] - 2 * geometry.cropOffset[axis] * ActualScale4
Unclamped(axis) ==
    \/ MinPosition8(axis) > MaxPosition8(axis)
    \/ (MinPosition8(axis) <= Candidate8(axis) /\ Candidate8(axis) <= MaxPosition8(axis))
\* Where the video point under the focus point of the base layout is shown.
FocusPointShown8(axis) == videoSprite[axis] + FocusOffsetZoomed8(axis)

\* C12: with any required dimension non-positive (negative stage or video
\* sizes included) applyZoomTransform leaves sprite scale and position, blur
\* and mask as they were.
C12_NonPositiveGeometryIsNoOp ==
    (ZoomCalled /\ ~AllPositive(geometry)) => Display = InitialDisplay

\* C13: per axis, with min > max the position set is the unclamped candidate;
\* otherwise it lies in [min, max] and is the candidate when that lies there.
C13_ClampPerAxis ==
    (ZoomCalled /\ AllPositive(geometry)) =>
        \A axis \in Axes :
            IF MinPosition8(axis) > MaxPosition8(axis)
            THEN videoSprite[axis] = Candidate8(axis)
            ELSE /\ MinPosition8(axis) <= videoSprite[axis]
                 /\ videoSprite[axis] <= MaxPosition8(axis)
                 /\ (MinPosition8(axis) <= Candidate8(axis)
                        /\ Candidate8(axis) <= MaxPosition8(axis))
                    => videoSprite[axis] = Candidate8(axis)

\* On x the bounds are crossed and the candidate is kept; on y the
\* candidate lay outside the bounds and was clamped.
C13_Witness ==
    /\ ZoomCalled /\ AllPositive(geometry)
    /\ MinPosition8("x") > MaxPosition8("x")
    /\ videoSprite.x = Candidate8("x")
    /\ MinPosition8("y") <= MaxPosition8("y")
    /\ Candidate8("y") > MaxPosition8("y")
    /\ videoSprite.y = MaxPosition8("y")

\* C14 as stated: for zoomScale > 1 and an unclamped axis, the video point
\* under the focus is shown within 0.5 px of baseMask.origin + baseMask size / 2.
C14_FocusAtMaskCentre ==
    (ZoomCalled /\ AllPositive(geometry) /\ zoomInput.zoomScale > SCALE_DENOM) =>
        \A axis \in Axes :
            Unclamped(axis) =>
                Abs(FocusPointShown8(axis) - MaskCenter8(axis)) <= 4

\* C14 amended: for zoomScale > 1 and an unclamped axis, the video point
\* under the focus is shown exactly at baseMask.origin + stageSize / 2.
C14_FocusAtStageCentre ==
    (ZoomCalled /\ AllPositive(geometry) /\ zoomInput.zoomScale > SCALE_DENOM) =>
        \A axis \in Axes :
            Unclamped(axis) => FocusPointShown8(axis) = StageCenter8(axis)

\* Zoom 1.5 on a stage wider than the mask, x unclamped: the focus point is
\* shown at the stage centre, 2 px from the mask centre.
C14_Witness ==
    /\ ZoomCalled /\ AllPositive(geometry)
    /\ zoomInput.zoomScale > SCALE_DENOM
    /\ Unclamped("x")
    /\ geometry.stageSize.width # geometry.baseMask.width
    /\ geometry.baseOffset.x # 0
    /\ FocusPointShown8("x") = StageCenter8("x")
    /\ FocusPointShown8("x") - MaskCenter8("x") = 16

\* C18: with all dimensions positive the scale set on the sprite is > 0 for
\* every zoomScale, zero and negative included.
C18_SpriteScalePositive ==
    (ZoomCalled /\ AllPositive(geometry)) => videoSprite.scale > 0

====
